---- MODULE Spec2Model ----
(***************************************************************************)
(* pchtxt2ips.py: convert_pchtxt_to_ips, the compiler from the pchtxt      *)
(* patch text to the IPS32 container.                                      *)
(*                                                                         *)
(* Text is a sequence of one-character strings.  A Python int is a pair    *)
(* <<hi, lo>> with value hi * 65536 + lo and 0 <= lo < 65536 (hi carries   *)
(* the sign), so that 32-bit addresses and their overflow are exact.       *)
(* Optional values: None is <<>>, a value v is <<v>>.                      *)
(***************************************************************************)
EXTENDS Integers, Sequences, FiniteSets, TLC

\* Longest document, in lines.
MaxLines == 4

----------------------------------------------------------------------------
\* Python values

None == <<>>

ValueError == <<>>

Limb == 65536

Byte == 256

PyInt(hi, lo) == <<hi, lo>>

Zero == PyInt(0, 0)

\* address + offset_shift on Python ints: exact, no wrap (line 139)
PyAdd(a, b) ==
    LET lo == a[2] + b[2]
    IN  PyInt(a[1] + b[1] + (lo \div Limb), lo % Limb)

\* acc * base + d on Python ints, the step of int()'s digit loop
PyMulAdd(acc, base, d) ==
    LET lo == acc[2] * base + d
    IN  PyInt(acc[1] * base + (lo \div Limb), lo % Limb)

PyNeg(a) ==
    IF a[2] = 0 THEN PyInt(0 - a[1], 0) ELSE PyInt(0 - a[1] - 1, Limb - a[2])

----------------------------------------------------------------------------
\* str methods

\* str.strip() and str.split() whitespace (ASCII text)
Whitespace == {" ", "\t", "\r", "\f"}

\* line.strip()
strip(s) ==
    IF \A i \in 1..Len(s) : s[i] \in Whitespace THEN <<>>
    ELSE LET first == CHOOSE i \in 1..Len(s) :
                          /\ s[i] \notin Whitespace
                          /\ \A j \in 1..(i - 1) : s[j] \in Whitespace
             last == CHOOSE i \in 1..Len(s) :
                          /\ s[i] \notin Whitespace
                          /\ \A j \in (i + 1)..Len(s) : s[j] \in Whitespace
         IN  SubSeq(s, first, last)

\* the k-th smallest element of a finite set of integers
Kth(S, k) == CHOOSE x \in S : Cardinality({y \in S : y < x}) = k - 1

\* variant: line.split(' ') style, every whitespace character ends a token,
\* so two of them in a row give an empty token
split_KeepEmpty(s) ==
    LET seps == {0, Len(s) + 1} \cup {i \in 1..Len(s) : s[i] \in Whitespace}
    IN  [k \in 1..(Cardinality(seps) - 1) |->
            SubSeq(s, Kth(seps, k) + 1, Kth(seps, k + 1) - 1)]

\* line.split(): the maximal runs of non-whitespace, in order
split(s) ==
    LET starts == {i \in 1..Len(s) :
                      s[i] \notin Whitespace /\ (i = 1 \/ s[i - 1] \in Whitespace)}
        ends == {i \in 1..Len(s) :
                      s[i] \notin Whitespace /\ (i = Len(s) \/ s[i + 1] \in Whitespace)}
    IN  [k \in 1..Cardinality(starts) |-> SubSeq(s, Kth(starts, k), Kth(ends, k))]

\* s.startswith(p)
startswith(s, p) == Len(s) >= Len(p) /\ SubSeq(s, 1, Len(p)) = p

----------------------------------------------------------------------------
\* int(text, base) and bytes.fromhex(text)

\* the value of a digit character
DigitTable ==
    ("0" :> 0) @@ ("1" :> 1) @@ ("2" :> 2) @@ ("3" :> 3) @@ ("4" :> 4) @@
    ("5" :> 5) @@ ("6" :> 6) @@ ("7" :> 7) @@ ("8" :> 8) @@ ("9" :> 9) @@
    ("a" :> 10) @@ ("b" :> 11) @@ ("c" :> 12) @@ ("d" :> 13) @@ ("e" :> 14) @@
    ("f" :> 15) @@ ("A" :> 10) @@ ("B" :> 11) @@ ("C" :> 12) @@ ("D" :> 13) @@
    ("E" :> 14) @@ ("F" :> 15)

IsDigit(c, base) == c \in DOMAIN DigitTable /\ DigitTable[c] < base

\* digits with single underscores between them; one underscore may follow a
\* base prefix
ValidDigits(d, base, afterPrefix) ==
    /\ Len(d) > 0
    /\ \A i \in 1..Len(d) :
          IF d[i] = "_"
          THEN i < Len(d) /\ d[i + 1] # "_" /\ (i > 1 \/ afterPrefix)
          ELSE IsDigit(d[i], base)

RECURSIVE DigitsValue(_, _, _)
DigitsValue(d, base, acc) ==
    IF d = <<>> THEN acc
    ELSE IF Head(d) = "_" THEN DigitsValue(Tail(d), base, acc)
    ELSE DigitsValue(Tail(d), base, PyMulAdd(acc, base, DigitTable[Head(d)]))

HasSign(s) == Len(s) > 0 /\ s[1] \in {"+", "-"}

Unsigned(s) == IF HasSign(s) THEN Tail(s) ELSE s

Signed(s, v) == IF HasSign(s) /\ s[1] = "-" THEN PyNeg(v) ELSE v

HasPrefix(u, letters) == Len(u) >= 2 /\ u[1] = "0" /\ u[2] \in letters

\* int(text, 16): optional sign, optional 0x, hexadecimal digits
int16(s) ==
    LET u == Unsigned(s)
        pre == HasPrefix(u, {"x", "X"})
        d == IF pre THEN SubSeq(u, 3, Len(u)) ELSE u
    IN  IF ValidDigits(d, 16, pre)
        THEN <<Signed(s, DigitsValue(d, 16, Zero))>>
        ELSE ValueError

\* int(text, 0): optional sign, then 0x / 0o / 0b and digits of that base, or
\* a decimal literal, which has no leading zero unless it is zero
int0(s) ==
    LET u == Unsigned(s)
        base == IF HasPrefix(u, {"x", "X"}) THEN 16
                ELSE IF HasPrefix(u, {"o", "O"}) THEN 8
                ELSE IF HasPrefix(u, {"b", "B"}) THEN 2
                ELSE 10
        pre == base # 10
        d == IF pre THEN SubSeq(u, 3, Len(u)) ELSE u
    IN  IF ~ValidDigits(d, base, pre) THEN ValueError
        ELSE LET v == DigitsValue(d, base, Zero)
             IN  IF ~pre /\ d[1] = "0" /\ v # Zero THEN ValueError
                 ELSE <<Signed(s, v)>>

\* variant: a lenient reading that drops a trailing odd digit
fromhex_Truncating(s) ==
    IF \A i \in 1..Len(s) : IsDigit(s[i], 16)
    THEN <<[k \in 1..(Len(s) \div 2) |->
               16 * DigitTable[s[2 * k - 1]] + DigitTable[s[2 * k]]]>>
    ELSE ValueError

\* bytes.fromhex(text) on a token without whitespace: pairs of hex digits
fromhex(s) ==
    IF Len(s) % 2 = 0 /\ \A i \in 1..Len(s) : IsDigit(s[i], 16)
    THEN <<[k \in 1..(Len(s) \div 2) |->
               16 * DigitTable[s[2 * k - 1]] + DigitTable[s[2 * k]]]>>
    ELSE ValueError

----------------------------------------------------------------------------
\* Program text

IPS32_HEAD_MAGIC == <<73, 80, 83, 51, 50>>

IPS32_FOOT_MAGIC == <<69, 69, 79, 70>>

NSOBID_PREFIX == <<"@", "n", "s", "o", "b", "i", "d", "-">>

OFFSET_SHIFT_PREFIX ==
    <<"@", "f", "l", "a", "g", " ", "o", "f", "f", "s", "e", "t", "_", "s", "h", "i", "f", "t">>

AT_STOP == <<"@", "s", "t", "o", "p">>

AT_ENABLED == <<"@", "e", "n", "a", "b", "l", "e", "d">>

AT_DISABLED == <<"@", "d", "i", "s", "a", "b", "l", "e", "d">>

IPS_EXT == <<".", "i", "p", "s">>

\* one printed line: what it says, the line number and the text it quotes
Message(msg, n, text) == [msg |-> msg, line |-> n, text |-> text]

----------------------------------------------------------------------------
\* Inputs.  A line of the file is written as a string; Chars gives its
\* characters.

\* the largest value of an unsigned 16-bit field ('>H', line 154)
MaxH == 65535

\* "0 " followed by 65536 bytes of hex text: one byte more than '>H' can count
LongEntry == "0 00..00 (65536 bytes)"

Chars ==
    (""                           :> <<>>) @@
    ("  "                         :> <<" ", " ">>) @@
    ("@enabled"                   :> <<"@", "e", "n", "a", "b", "l", "e", "d">>) @@
    ("@disabled"                  :> <<"@", "d", "i", "s", "a", "b", "l", "e", "d">>) @@
    ("@stop"                      :> <<"@", "s", "t", "o", "p">>) @@
    ("# c"                        :> <<"#", " ", "c">>) @@
    ("1000 AB"                    :> <<"1", "0", "0", "0", " ", "A", "B">>) @@
    (" 20 CAFE x"                 :> <<" ", "2", "0", " ", "C", "A", "F", "E", " ", "x">>) @@
    ("20 CAFE"                    :> <<"2", "0", " ", "C", "A", "F", "E">>) @@
    ("1000 ABC"                   :> <<"1", "0", "0", "0", " ", "A", "B", "C">>) @@
    ("10"                         :> <<"1", "0">>) @@
    ("ZZ 00"                      :> <<"Z", "Z", " ", "0", "0">>) @@
    ("10 G0"                      :> <<"1", "0", " ", "G", "0">>) @@
    ("0x1F 01"                    :> <<"0", "x", "1", "F", " ", "0", "1">>) @@
    ("@nsobid-A"                  :> <<"@", "n", "s", "o", "b", "i", "d", "-", "A">>) @@
    ("  @nsobid- B7 "             :> <<" ", " ", "@", "n", "s", "o", "b", "i", "d", "-", " ", "B", "7", " ">>) @@
    ("@nsobid-"                   :> <<"@", "n", "s", "o", "b", "i", "d", "-">>) @@
    ("@flag offset_shift 0x10"    :> <<"@", "f", "l", "a", "g", " ", "o", "f", "f", "s", "e", "t", "_", "s", "h", "i", "f", "t", " ", "0", "x", "1", "0">>) @@
    ("@flag offset_shift 7"       :> <<"@", "f", "l", "a", "g", " ", "o", "f", "f", "s", "e", "t", "_", "s", "h", "i", "f", "t", " ", "7">>) @@
    ("@flag offset_shift zz"      :> <<"@", "f", "l", "a", "g", " ", "o", "f", "f", "s", "e", "t", "_", "s", "h", "i", "f", "t", " ", "z", "z">>) @@
    ("@flag offset_shift"         :> <<"@", "f", "l", "a", "g", " ", "o", "f", "f", "s", "e", "t", "_", "s", "h", "i", "f", "t">>) @@
    ("@flag offset_shift 1"       :> <<"@", "f", "l", "a", "g", " ", "o", "f", "f", "s", "e", "t", "_", "s", "h", "i", "f", "t", " ", "1">>) @@
    ("FFFFFFFF 00"                :> <<"F", "F", "F", "F", "F", "F", "F", "F", " ", "0", "0">>) @@
    ("100000000 00"               :> <<"1", "0", "0", "0", "0", "0", "0", "0", "0", " ", "0", "0">>) @@
    ("45454F46 00"                :> <<"4", "5", "4", "5", "4", "F", "4", "6", " ", "0", "0">>) @@
    ("00001000 DEADBEEF"          :> <<"0", "0", "0", "0", "1", "0", "0", "0", " ", "D", "E", "A", "D", "B", "E", "E", "F">>) @@
    ("00002000 CAFE"              :> <<"0", "0", "0", "0", "2", "0", "0", "0", " ", "C", "A", "F", "E">>) @@
    ("-10 AB"                     :> <<"-", "1", "0", " ", "A", "B">>) @@
    ("//c"                        :> <<"/", "/", "c">>) @@
    ("1000  AB"                   :> <<"1", "0", "0", "0", " ", " ", "A", "B">>) @@
    ("1000 A"                     :> <<"1", "0", "0", "0", " ", "A">>) @@
    ("1000"                       :> <<"1", "0", "0", "0">>) @@
    (" @nsobid-  "                :> <<" ", "@", "n", "s", "o", "b", "i", "d", "-", " ", " ">>) @@
    (LongEntry :> <<"0", " ">> \o [i \in 1..(2 * (MaxH + 1)) |-> "0"])

----------------------------------------------------------------------------
\* State

VARIABLES
    pc,            \* position in convert_pchtxt_to_ips
    lines,         \* pchtxt_data.split('\n')
    pchtxt_path,   \* the first argument
    nsobid,        \* None or <<text>>
    offset_shift,
    line_num,      \* 1-based index of the next line of the running loop
    patches,       \* list of <<address, value_bytes>>
    is_enabled,
    stop_parsing,
    stdout,        \* the lines printed so far
    ips_data,
    folder_made,   \* os.makedirs(output_folder) has run
    out_file,      \* None or <<[name, data]>>: the output file as this run left it
    result         \* how the run ended

vars == <<pc, lines, pchtxt_path, nsobid, offset_shift, line_num, patches, is_enabled,
          stop_parsing, stdout, ips_data, folder_made, out_file, result>>

\* the documents of 1..MaxLines lines over a set of lines (split('\n') never
\* returns an empty list)
\* os.path.basename: what follows the last "/"
basename(p) ==
    LET seps == {i \in 1..Len(p) : p[i] = "/"}
        last == IF seps = {} THEN 0 ELSE CHOOSE i \in seps : \A j \in seps : j <= i
    IN  SubSeq(p, last + 1, Len(p))

\* os.path.splitext of a base name: the extension starts at the last "." that
\* has a character other than "." before it
splitext(b) ==
    LET dots == {i \in 1..Len(b) : b[i] = "."}
        d == IF dots = {} THEN 0 ELSE CHOOSE i \in dots : \A j \in dots : j <= i
    IN  IF d > 0 /\ \E i \in 1..(d - 1) : b[i] # "."
        THEN <<SubSeq(b, 1, d - 1), SubSeq(b, d, Len(b))>>
        ELSE <<b, <<>> >>

\* line 76
stem == splitext(basename(pchtxt_path))[1]

Documents(pool) == UNION {[1..n -> pool] : n \in 1..MaxLines}

\* lines 44-53 and 79-81: the file is read, or the read fails and the run ends
InitOn(docs, paths) ==
    /\ pchtxt_path \in paths
    /\ nsobid = None
    /\ offset_shift = Zero
    /\ line_num = 1
    /\ patches = <<>>
    /\ is_enabled = FALSE
    /\ stop_parsing = FALSE
    /\ ips_data = <<>>
    /\ folder_made = FALSE
    /\ out_file = None
    /\ \/ /\ lines \in docs
          /\ pc = "scan"
          /\ stdout = <<>>
          /\ result = "running"
       \/ /\ lines = <<>>
          /\ pc = "done"
          /\ stdout = <<Message("Error reading file", 0, <<>>)>>
          /\ result = "read_error"

----------------------------------------------------------------------------
\* First loop, lines 55-72: the identifier and offset_shift

\* variant: only the first naming directive assigns nsobid
NsobidOnDirective_First(old, text) == IF old = None THEN <<text>> ELSE old

\* line 61: every naming directive assigns nsobid
NsobidOnDirective(old, text) == <<text>>

\* variant: only the first offset-shift directive with a number assigns
OffsetOnDirective_First(old, v) == IF old = Zero THEN v ELSE old

\* line 69: every offset-shift directive with a number assigns offset_shift
OffsetOnDirective(old, v) == v

\* variant: a literal that does not parse leaves offset_shift alone
OffsetOnValueError_Keep(old) == old

\* lines 70-72: the literal does not parse
OffsetOnValueError(old) == Zero

ScanStep(line, ns, off, out) ==
    LET line_stripped == strip(line)
        same == [nsobid |-> ns, offset_shift |-> off, stdout |-> out]
    IN  IF startswith(line_stripped, NSOBID_PREFIX)
        THEN [same EXCEPT !.nsobid =
                 NsobidOnDirective(ns, strip(SubSeq(line_stripped, 9, Len(line_stripped))))]
        ELSE IF startswith(line_stripped, OFFSET_SHIFT_PREFIX)
        THEN LET parts == split(line_stripped)
             IN  IF Len(parts) >= 3
                 THEN LET v == int0(parts[3])
                      IN  IF v # ValueError
                          THEN [same EXCEPT !.offset_shift = OffsetOnDirective(off, v[1])]
                          ELSE [same EXCEPT
                                   !.offset_shift = OffsetOnValueError(off),
                                   !.stdout = Append(out,
                                       Message("Warning: Invalid offset_shift value", 0, parts[3]))]
                 ELSE same
        ELSE same

ScanLine ==
    /\ pc = "scan"
    /\ line_num <= Len(lines)
    /\ LET r == ScanStep(Chars[lines[line_num]], nsobid, offset_shift, stdout)
       IN  /\ nsobid' = r.nsobid
           /\ offset_shift' = r.offset_shift
           /\ stdout' = r.stdout
    /\ line_num' = line_num + 1
    /\ UNCHANGED <<pc, lines, pchtxt_path, patches, is_enabled, stop_parsing, ips_data,
                   folder_made, out_file, result>>

\* variant: only a missing directive gives the file name
NotNsobid_NoneOnly(ns) == ns = None

\* `not nsobid`: None or the empty string
NotNsobid(ns) == ns = None \/ ns[1] = <<>>

\* lines 74-81: the file name stands in for a missing identifier
ResolveName ==
    /\ pc = "scan"
    /\ line_num > Len(lines)
    /\ nsobid' = IF NotNsobid(nsobid) THEN <<stem>> ELSE nsobid
    /\ pc' = "parse"
    /\ line_num' = 1
    /\ UNCHANGED <<lines, pchtxt_path, offset_shift, patches, is_enabled, stop_parsing,
                   stdout, ips_data, folder_made, out_file, result>>

----------------------------------------------------------------------------
\* Second loop, lines 83-141: the patches

\* variant: the test of stop_parsing is left out
AfterStop_Ignored(stop) == FALSE

\* lines 96-97
AfterStop(stop) == stop

\* variant: a line that starts with "@" is no comment
IsComment_NoAt(ls) == startswith(ls, <<"/", "/">>) \/ startswith(ls, <<"#">>)

\* line 108
IsComment(ls) ==
    \/ startswith(ls, <<"@">>)
    \/ startswith(ls, <<"/", "/">>)
    \/ startswith(ls, <<"#">>)

\* variant: entries are read in every section
SkipEntry_Never(enabled) == FALSE

\* lines 112-113: an entry is skipped while the section is not enabled
SkipEntry(enabled) == ~enabled

\* a < b on Python ints
PyLess(a, b) == a[1] < b[1] \/ (a[1] = b[1] /\ a[2] < b[2])

\* variant: the shift is taken off the address
ShiftAddress_Minus(address, off) == PyAdd(address, PyNeg(off))

\* line 141: address + offset_shift
ShiftAddress(address, off) == PyAdd(address, off)

\* variant: the records are kept sorted by address (the sort of line 148)
AppendPatch_Sorted(ps, patch) ==
    LET before == SelectSeq(ps, LAMBDA q : ~PyLess(patch[1], q[1]))
        after == SelectSeq(ps, LAMBDA q : PyLess(patch[1], q[1]))
    IN  before \o <<patch>> \o after

\* line 141
AppendPatch(ps, patch) == Append(ps, patch)

\* lines 115-141: an entry line of an enabled section
ParseEntry(line_stripped, n, off, st) ==
    LET parts == split(line_stripped)
    IN  IF Len(parts) < 2 THEN st
        ELSE LET address == int16(parts[1])
             IN  IF address = ValueError
                 THEN [st EXCEPT !.stdout = Append(@,
                          Message("Warning: invalid address, skipping", n, parts[1]))]
                 ELSE LET value_bytes == fromhex(parts[2])
                      IN  IF value_bytes = ValueError
                          THEN [st EXCEPT !.stdout = Append(@,
                                   Message("Warning: invalid hex data, skipping", n, parts[2]))]
                          ELSE [st EXCEPT !.patches =
                                   AppendPatch(@, <<ShiftAddress(address[1], off), value_bytes[1]>>)]

\* lines 84-113: the body of the loop for one line
ParseStep(line, n, off, st) ==
    LET line_stripped == strip(line)
    IN  IF line_stripped = <<>> THEN st
        ELSE IF line_stripped = AT_STOP THEN [st EXCEPT !.stop_parsing = TRUE]
        ELSE IF AfterStop(st.stop_parsing) THEN st
        ELSE IF line_stripped = AT_ENABLED THEN [st EXCEPT !.is_enabled = TRUE]
        ELSE IF line_stripped = AT_DISABLED THEN [st EXCEPT !.is_enabled = FALSE]
        ELSE IF IsComment(line_stripped) THEN st
        ELSE IF SkipEntry(st.is_enabled) THEN st
        ELSE ParseEntry(line_stripped, n, off, st)

ParseLine ==
    /\ pc = "parse"
    /\ line_num <= Len(lines)
    /\ LET r == ParseStep(Chars[lines[line_num]], line_num, offset_shift,
                          [patches |-> patches, is_enabled |-> is_enabled,
                           stop_parsing |-> stop_parsing, stdout |-> stdout])
       IN  /\ patches' = r.patches
           /\ is_enabled' = r.is_enabled
           /\ stop_parsing' = r.stop_parsing
           /\ stdout' = r.stdout
    /\ line_num' = line_num + 1
    /\ UNCHANGED <<pc, lines, pchtxt_path, nsobid, offset_shift, ips_data, folder_made,
                   out_file, result>>

----------------------------------------------------------------------------
\* Lines 143-178: the container

\* variant: the test for an empty record list is left out
NoPatches_Never(ps) == FALSE

\* line 143
NoPatches(ps) == ps = <<>>

\* lines 143-145
CheckPatches ==
    /\ pc = "parse"
    /\ line_num > Len(lines)
    /\ IF NoPatches(patches)
       THEN /\ stdout' = Append(stdout, Message("Warning: No valid patches found", 0, <<>>))
            /\ result' = "no_patches"
            /\ pc' = "done"
       ELSE /\ pc' = "build"
            /\ UNCHANGED <<stdout, result>>
    /\ UNCHANGED <<lines, pchtxt_path, nsobid, offset_shift, line_num, patches, is_enabled,
                   stop_parsing, ips_data, folder_made, out_file>>

\* struct.pack('>I', address) raises struct.error outside 0..2^32-1
FitsI(address) == 0 <= address[1] /\ address[1] < Limb

\* struct.pack('>H', n) raises struct.error outside 0..MaxH
FitsH(n) == 0 <= n /\ n <= MaxH

PackI(address) ==
    <<address[1] \div Byte, address[1] % Byte, address[2] \div Byte, address[2] % Byte>>

\* variant: the length is packed low byte first ('<H')
PackH_LittleEndian(n) == <<n % Byte, n \div Byte>>

PackH(n) == <<n \div Byte, n % Byte>>

\* lines 151-155, when every pack succeeds
RECURSIVE PackPatches(_)
PackPatches(ps) ==
    IF ps = <<>> THEN <<>>
    ELSE PackI(Head(ps)[1]) \o PackH(Len(Head(ps)[2])) \o Head(ps)[2]
             \o PackPatches(Tail(ps))

Packable(ps) == \A i \in 1..Len(ps) : FitsI(ps[i][1]) /\ FitsH(Len(ps[i][2]))

\* lines 150-155: struct.error is not caught, the run ends in a traceback
BuildIPS ==
    /\ pc = "build"
    /\ IF Packable(patches)
       THEN /\ ips_data' = PackPatches(patches)
            /\ pc' = "mkdir"
            /\ UNCHANGED result
       ELSE /\ result' = "struct_error"
            /\ pc' = "done"
            /\ UNCHANGED ips_data
    /\ UNCHANGED <<lines, pchtxt_path, nsobid, offset_shift, line_num, patches, is_enabled,
                   stop_parsing, stdout, folder_made, out_file>>

\* lines 157-159: the folder is there, or is made, or os.makedirs raises
MakeDirs ==
    /\ pc = "mkdir"
    /\ \E exists \in BOOLEAN, made \in BOOLEAN :
          IF exists
          THEN pc' = "write" /\ UNCHANGED <<folder_made, result>>
          ELSE IF made
          THEN pc' = "write" /\ folder_made' = TRUE /\ UNCHANGED result
          ELSE pc' = "done" /\ result' = "os_error" /\ UNCHANGED folder_made
    /\ UNCHANGED <<lines, pchtxt_path, nsobid, offset_shift, line_num, patches, is_enabled,
                   stop_parsing, stdout, ips_data, out_file>>

\* the three writes of lines 167-169
Chunks == <<IPS32_HEAD_MAGIC, ips_data, IPS32_FOOT_MAGIC>>

RECURSIVE Concat(_)
Concat(ss) == IF ss = <<>> THEN <<>> ELSE Head(ss) \o Concat(Tail(ss))

\* lines 161-178: open fails (written = -1), or a write fails after `written`
\* of the three have succeeded, or all three succeed
WriteFile ==
    /\ pc = "write"
    /\ \E written \in -1..3 :
          /\ out_file' = IF written = -1 THEN None
                         ELSE <<[name |-> nsobid[1] \o IPS_EXT,
                                 data |-> Concat(SubSeq(Chunks, 1, written))]>>
          /\ IF written = 3
             THEN /\ stdout' = stdout \o
                       <<Message("Successfully converted", 0, <<>>),
                         Message("Output file", 0, nsobid[1] \o IPS_EXT),
                         Message("Total patches", Len(patches), <<>>)>> \o
                       (IF offset_shift # Zero
                        THEN <<Message("Offset shift applied", 0, <<>>)>> ELSE <<>>)
                  /\ result' = "success"
             ELSE /\ stdout' = Append(stdout,
                       Message("Error writing IPS file", 0, nsobid[1] \o IPS_EXT))
                  /\ result' = "write_error"
    /\ pc' = "done"
    /\ UNCHANGED <<lines, pchtxt_path, nsobid, offset_shift, line_num, patches, is_enabled,
                   stop_parsing, ips_data, folder_made>>

Next ==
    \/ ScanLine
    \/ ResolveName
    \/ ParseLine
    \/ CheckPatches
    \/ BuildIPS
    \/ MakeDirs
    \/ WriteFile

----------------------------------------------------------------------------
\* Inputs of the specifications

PathDemo == <<"d", "i", "r", "/", "d", "e", "m", "o", ".", "p", "c", "h", "t", "x", "t">>

\* the stem of PathDemo
StemDemo == <<"d", "e", "m", "o">>

\* sections: an empty and a blank line, enable, disable, stop, entries, a
\* malformed entry, a comment
SectionPool ==
    {"", "  ", "@enabled", "@disabled", "@stop", "1000 AB", " 20 CAFE x", "1000 ABC",
     "# c"}

Init == InitOn(Documents(SectionPool), {PathDemo})

Spec == Init /\ [][Next]_vars

\* directives: naming, offset shift with a good, a bad and no literal, @stop
MetaPool ==
    {"@enabled", "@stop", "1000 AB", "@nsobid-A", "  @nsobid- B7 ", "@nsobid-",
     "@flag offset_shift 0x10", "@flag offset_shift zz", "@flag offset_shift"}

InitMeta == InitOn(Documents(MetaPool), {PathDemo})

SpecMeta == InitMeta /\ [][Next]_vars

\* entry lines: well formed, one token, a bad address, an odd and a non-hex
\* value, a 0x address
EntryPool ==
    {"@enabled", "1000 AB", "20 CAFE", "10", "ZZ 00", "1000 ABC", "10 G0", "0x1F 01"}

InitEntry == InitOn(Documents(EntryPool), {PathDemo})

SpecEntry == InitEntry /\ [][Next]_vars

\* the highest 32-bit address, an offset shift of 1, and the address whose
\* four bytes spell the footer magic
WrapPool ==
    {"@enabled", "1000 AB", "FFFFFFFF 00", "45454F46 00", "@flag offset_shift 1"}

InitWrap == InitOn(Documents(WrapPool), {PathDemo})

SpecWrap == InitWrap /\ [][Next]_vars

\* a value of 65536 bytes
LongPool == {"@enabled", "1000 AB", LongEntry}

InitLong == InitOn(Documents(LongPool), {PathDemo})

SpecLong == InitLong /\ [][Next]_vars

\* values: entries with one and two blanks before the value, a value of one
\* digit, an entry without value
ValuePool == {"@enabled", "1000 AB", "1000  AB", "1000 A", "1000", " 20 CAFE x"}

InitValue == InitOn(Documents(ValuePool), {PathDemo})

SpecValue == InitValue /\ [][Next]_vars

\* comments: an empty line, comments of the three kinds, the three control
\* directives, an entry
CommentPool ==
    {"", "# c", "//c", "@flag offset_shift 7", "@enabled", "@disabled", "@stop",
     "1000 AB"}

InitComment == InitOn(Documents(CommentPool), {PathDemo})

SpecComment == InitComment /\ [][Next]_vars

\* signs: an entry whose address token starts with a minus sign, next to a
\* plain entry and an entry whose address is no number
SignedPool == {"@enabled", "1000 AB", "-10 AB", "ZZ 00"}

InitSigned == InitOn(Documents(SignedPool), {PathDemo})

SpecSigned == InitSigned /\ [][Next]_vars

\* names: naming directives with a text, a padded text and no text, next to
\* one entry, for files with a folder, with two dots and with a leading dot
NamePool == {"@enabled", "1000 AB", "@nsobid-A", "  @nsobid- B7 ", "@nsobid-"}

PathPool ==
    {PathDemo,
     <<"a", ".", "b", ".", "p", "c", "h", "t", "x", "t">>,
     <<".", "p", "c", "h", "t", "x", "t">>}

InitName == InitOn(Documents(NamePool), PathPool)

SpecName == InitName /\ [][Next]_vars

\* naming directives without text, bare and with blanks around, before and
\* after one with a text
EmptyNamePool == {"@enabled", "1000 AB", "@nsobid-A", "@nsobid-", " @nsobid-  "}

InitEmptyName == InitOn(Documents(EmptyNamePool), PathPool)

SpecEmptyName == InitEmptyName /\ [][Next]_vars

\* offset shift: entries at a low and at the highest address, a malformed
\* entry, a disabled section, directives with two values and a bad literal
ShiftPool ==
    {"@enabled", "@disabled", "1000 AB", "FFFFFFFF 00", "1000 ABC",
     "@flag offset_shift 1", "@flag offset_shift 0x10", "@flag offset_shift zz"}

InitShift == InitOn(Documents(ShiftPool), {PathDemo})

SpecShift == InitShift /\ [][Next]_vars

\* container layout: two entries of eight and four hex digits, a short entry,
\* an offset_shift directive
LayoutPool ==
    {"@enabled", "00001000 DEADBEEF", "00002000 CAFE", "1000 AB",
     "@flag offset_shift 0x10"}

InitLayout == InitOn(Documents(LayoutPool), {PathDemo})

SpecLayout == InitLayout /\ [][Next]_vars

----------------------------------------------------------------------------
\* What a document says, read off its lines

Stripped(doc, i) == strip(Chars[doc[i]])

\* the second loop has gone through the first Processed lines
Processed ==
    IF pc = "scan" THEN 0
    ELSE IF pc = "parse" THEN line_num - 1
    ELSE Len(lines)

\* the file was read and the second loop has run to its end
ParsedAll == pc \in {"build", "mkdir", "write", "done"} /\ result # "read_error"

StopBefore(doc, i) == \E j \in 1..(i - 1) : Stripped(doc, j) = AT_STOP

\* the last @enabled / @disabled before line i is an @enabled
EnabledAt(doc, i) ==
    \E j \in 1..(i - 1) :
        /\ Stripped(doc, j) = AT_ENABLED
        /\ \A k \in (j + 1)..(i - 1) : Stripped(doc, k) # AT_DISABLED

IsEntryLine(ls) == ls # <<>> /\ ~IsComment(ls)

\* an entry line with an address token and a value token that both parse
WellFormedEntry(ls) ==
    /\ IsEntryLine(ls)
    /\ Len(split(ls)) >= 2
    /\ int16(split(ls)[1]) # ValueError
    /\ fromhex(split(ls)[2]) # ValueError

EntryRecord(ls, off) ==
    <<PyAdd(int16(split(ls)[1])[1], off), fromhex(split(ls)[2])[1]>>

\* the well-formed entries of enabled, not stopped regions among the first
\* n lines, in source order
RegionEntries(doc, n, off) ==
    LET idx == SelectSeq([i \in 1..n |-> i],
                   LAMBDA i : /\ WellFormedEntry(Stripped(doc, i))
                              /\ EnabledAt(doc, i)
                              /\ ~StopBefore(doc, i))
    IN  [k \in 1..Len(idx) |-> EntryRecord(Stripped(doc, idx[k]), off)]

----------------------------------------------------------------------------
\* Claims

\* C1: the records handed to the encoder are exactly the well-formed entry
\* lines read while enabled and not stopped, in source order: nothing is
\* reordered, deduplicated, merged or added from a disabled or stopped region.
C1_RecordsAreRegionEntries ==
    /\ pc = "parse" => patches = RegionEntries(lines, line_num - 1, offset_shift)
    /\ ParsedAll => patches = RegionEntries(lines, Len(lines), offset_shift)

\* an entry before @enabled is left out, and two records with falling
\* addresses keep their source order
C1_Witness ==
    /\ pc = "build"
    /\ Len(patches) = 2
    /\ PyLess(patches[2][1], patches[1][1])
    /\ \E i \in 1..Len(lines) :
          WellFormedEntry(Stripped(lines, i)) /\ ~EnabledAt(lines, i)

\* C2: once an @stop line has been processed, stopped stays true and neither
\* the records nor the enabled flag change again, while the loop still goes
\* on to the last line.
C2_StopFreezes ==
    [][(\E j \in 1..Processed : Stripped(lines, j) = AT_STOP) =>
          /\ stop_parsing /\ stop_parsing'
          /\ patches' = patches
          /\ is_enabled' = is_enabled
          /\ (pc = "parse" /\ line_num <= Len(lines) =>
                 pc' = "parse" /\ line_num' = line_num + 1)]_vars

\* a record was collected, then @stop was read, then an entry line in the
\* still enabled section, up to the end of the input
C2_Witness ==
    /\ pc = "parse"
    /\ line_num > Len(lines)
    /\ is_enabled
    /\ Len(patches) = 1
    /\ \E j \in 1..Len(lines) :
          /\ Stripped(lines, j) = AT_STOP
          /\ \E k \in (j + 1)..Len(lines) : WellFormedEntry(Stripped(lines, k))

\* C9: with no record at the end of the input the run reports the no-patches
\* condition and creates neither the output file nor the output folder.
C9_NoPatchesNoOutput ==
    /\ ParsedAll /\ patches = <<>> =>
          /\ pc = "done"
          /\ result = "no_patches"
          /\ stdout[Len(stdout)].msg = "Warning: No valid patches found"
    /\ patches = <<>> => out_file = None /\ ~folder_made

\* a document whose only well-formed entries are disabled or stopped
C9_Witness ==
    /\ result = "no_patches"
    /\ \E i \in 1..Len(lines) : WellFormedEntry(Stripped(lines, i))
    /\ out_file = None
    /\ ~folder_made

----------------------------------------------------------------------------
\* The two loops as functions of the document

\* lines 55-72 over the first n lines
RECURSIVE ScanAll(_, _)
ScanAll(doc, n) ==
    IF n = 0 THEN [nsobid |-> None, offset_shift |-> Zero, stdout |-> <<>>]
    ELSE LET m == ScanAll(doc, n - 1)
         IN  ScanStep(Chars[doc[n]], m.nsobid, m.offset_shift, m.stdout)

\* lines 52-76
IdentifierOf(doc) ==
    LET ns == ScanAll(doc, Len(doc)).nsobid
    IN  IF NotNsobid(ns) THEN <<stem>> ELSE ns

OffsetOf(doc) == ScanAll(doc, Len(doc)).offset_shift

\* lines 79-141 over the first n lines
RECURSIVE ParseAll(_, _, _)
ParseAll(doc, n, off) ==
    IF n = 0
    THEN [patches |-> <<>>, is_enabled |-> FALSE, stop_parsing |-> FALSE, stdout |-> <<>>]
    ELSE ParseStep(Chars[doc[n]], n, off, ParseAll(doc, n - 1, off))

RecordsOf(doc, off) == ParseAll(doc, Len(doc), off).patches

HasStop(doc) == \E j \in 1..Len(doc) : Stripped(doc, j) = AT_STOP

FirstStop(doc) ==
    CHOOSE j \in 1..Len(doc) : Stripped(doc, j) = AT_STOP /\ ~StopBefore(doc, j)

\* the document with every line after the first @stop deleted
CutAtStop(doc) == IF HasStop(doc) THEN SubSeq(doc, 1, FirstStop(doc)) ELSE doc

IsNameLine(ls) == startswith(ls, NSOBID_PREFIX)

\* the trimmed text after the prefix of a naming directive
NameText(ls) == strip(SubSeq(ls, Len(NSOBID_PREFIX) + 1, Len(ls)))

\* the naming directives of the document, in source order
NameLines(doc) ==
    SelectSeq([i \in 1..Len(doc) |-> i], LAMBDA i : IsNameLine(Stripped(doc, i)))

IsOffsetLine(ls) == ~IsNameLine(ls) /\ startswith(ls, OFFSET_SHIFT_PREFIX)

\* an offset-shift directive whose literal int(..., 0) rejects
BadOffsetLine(ls) ==
    IsOffsetLine(ls) /\ Len(split(ls)) >= 3 /\ int0(split(ls)[3]) = ValueError

\* an offset-shift directive whose literal is a number other than 0
GoodOffsetLine(ls) ==
    /\ IsOffsetLine(ls)
    /\ Len(split(ls)) >= 3
    /\ int0(split(ls)[3]) \notin {ValueError, <<Zero>>}

C4_FirstNameWins ==
    LET names == NameLines(lines)
    IN  pc # "scan" /\ Len(names) >= 2 /\ NameText(Stripped(lines, names[1])) # <<>> =>
            nsobid = <<NameText(Stripped(lines, names[1]))>>

\* C4, amended: every naming directive overwrites the identifier, so the
\* last one gives it; when its text is empty the file's base name is used.
C4_LastNameWins ==
    LET names == NameLines(lines)
        last == NameText(Stripped(lines, names[Len(names)]))
    IN  pc # "scan" /\ Len(names) >= 1 =>
            nsobid = IF last = <<>> THEN <<stem>> ELSE <<last>>

\* two naming directives with different texts
C4_Witness ==
    LET names == NameLines(lines)
    IN  /\ pc = "parse"
        /\ Len(names) >= 2
        /\ NameText(Stripped(lines, names[1])) # <<>>
        /\ NameText(Stripped(lines, names[Len(names)])) # <<>>
        /\ NameText(Stripped(lines, names[1])) # NameText(Stripped(lines, names[Len(names)]))

\* the first loop is at an offset-shift directive whose literal does not parse
AtBadOffset ==
    pc = "scan" /\ line_num <= Len(lines) /\ BadOffsetLine(Stripped(lines, line_num))

WarnedOnce ==
    /\ Len(stdout') = Len(stdout) + 1
    /\ stdout'[Len(stdout')].msg = "Warning: Invalid offset_shift value"

\* C5, as claimed: an offset-shift literal that does not parse gives a warning
\* and leaves offset_shift at the value it had; compilation continues.
C5_BadOffsetKeepsPrior ==
    [][AtBadOffset =>
          /\ WarnedOnce
          /\ offset_shift' = offset_shift
          /\ pc' = "scan" /\ line_num' = line_num + 1]_vars

\* C5, amended: an offset-shift literal that does not parse gives a warning
\* and sets offset_shift to 0, discarding what an earlier directive had set;
\* compilation continues.
C5_BadOffsetResets ==
    [][AtBadOffset =>
          /\ WarnedOnce
          /\ offset_shift' = Zero
          /\ pc' = "scan" /\ line_num' = line_num + 1]_vars

\* a good directive, then a bad one, then a record compiled with offset 0
C5_Witness ==
    /\ result = "success"
    /\ offset_shift = Zero
    /\ Len(stdout) > 0
    /\ stdout[1].msg = "Warning: Invalid offset_shift value"
    /\ \E j \in 1..Len(lines) :
          /\ GoodOffsetLine(Stripped(lines, j))
          /\ \E k \in (j + 1)..Len(lines) : BadOffsetLine(Stripped(lines, k))

\* (address + offset_shift) mod 2^32
Wrap32(a) == PyInt(a[1] % Limb, a[2])

\* C6, as claimed: the address of every record is (parsed address +
\* offset_shift) mod 2^32; a sum beyond 2^32 - 1 wraps, the record is stored
\* and the run still writes its output.
C6_AddressWraps ==
    LET e == RegionEntries(lines, Processed, offset_shift)
    IN  pc # "scan" /\ result # "read_error" =>
            /\ patches = [k \in 1..Len(e) |-> <<Wrap32(e[k][1]), e[k][2]>>]
            /\ result # "struct_error"

\* C7, as claimed: every record that reaches the encoder has a payload of at
\* most 65535 bytes, so the 2-byte length field can hold its length.
C7_LengthCapped ==
    pc = "build" => \A i \in 1..Len(patches) : Len(patches[i][2]) <= MaxH

----------------------------------------------------------------------------
\* The decoder of the container: the header, then records until the footer
\* magic stands at the current offset

UnpackI(b) == PyInt(b[1] * Byte + b[2], b[3] * Byte + b[4])

UnpackH(b) == b[1] * Byte + b[2]

DecodeFailed == [ok |-> FALSE, records |-> <<>>]

RECURSIVE DecodeFrom(_, _)
DecodeFrom(b, pos) ==
    IF pos + 3 <= Len(b) /\ SubSeq(b, pos, pos + 3) = IPS32_FOOT_MAGIC
    THEN [ok |-> TRUE, records |-> <<>>]
    ELSE IF pos + 5 > Len(b) THEN DecodeFailed
    ELSE LET address == UnpackI(SubSeq(b, pos, pos + 3))
             n == UnpackH(SubSeq(b, pos + 4, pos + 5))
         IN  IF pos + 5 + n > Len(b) THEN DecodeFailed
             ELSE LET rest == DecodeFrom(b, pos + 6 + n)
                  IN  [ok |-> rest.ok,
                       records |-> <<<<address, SubSeq(b, pos + 6, pos + 5 + n)>>>>
                                       \o rest.records]

Decode(b) ==
    IF Len(b) >= 5 /\ SubSeq(b, 1, 5) = IPS32_HEAD_MAGIC
    THEN DecodeFrom(b, 6)
    ELSE DecodeFailed

\* C8, as claimed: decoding the written container gives back the records, in
\* order, whatever address a record holds.
C8_RoundTrip ==
    result = "success" => Decode(out_file[1].data) = [ok |-> TRUE, records |-> patches]

----------------------------------------------------------------------------

\* a value token of whole bytes: hex digits, an even number of them
IsHexPairs(t) == Len(t) % 2 = 0 /\ \A i \in 1..Len(t) : t[i] \in DOMAIN DigitTable

\* an address token that int(..., 16) reads
IsHexNumber(t) == int16(t) # ValueError

\* an entry line with fewer than two tokens, an address token that is not
\* hexadecimal, or a value token of odd length or with a non-hex character
MalformedEntry(ls) ==
    /\ IsEntryLine(ls)
    /\ \/ Len(split(ls)) < 2
       \/ ~IsHexNumber(split(ls)[1])
       \/ ~IsHexPairs(split(ls)[2])

ValidEntry(ls) ==
    /\ IsEntryLine(ls)
    /\ Len(split(ls)) >= 2
    /\ IsHexNumber(split(ls)[1])
    /\ IsHexPairs(split(ls)[2])

\* the second loop is at an entry line of an enabled, not stopped section
AtEnabledEntry ==
    /\ pc = "parse"
    /\ line_num <= Len(lines)
    /\ is_enabled
    /\ ~stop_parsing

\* C10: a malformed entry line of an enabled section drops only itself: the
\* records, enabled, stopped and offset_shift stay as they are and the loop
\* goes on, and a valid entry read later is still recorded.
C10_MalformedDropsOnlyItself ==
    [][/\ AtEnabledEntry /\ MalformedEntry(Stripped(lines, line_num)) =>
             /\ patches' = patches
             /\ is_enabled' = is_enabled
             /\ stop_parsing' = stop_parsing
             /\ offset_shift' = offset_shift
             /\ pc' = "parse" /\ line_num' = line_num + 1
       /\ AtEnabledEntry /\ ValidEntry(Stripped(lines, line_num)) =>
             /\ Len(patches') = Len(patches) + 1
             /\ SubSeq(patches', 1, Len(patches)) = patches
             /\ patches'[Len(patches')] = EntryRecord(Stripped(lines, line_num), offset_shift)]_vars

\* a record, then an entry with an odd-length value, then another record
C10_Witness ==
    /\ pc = "parse"
    /\ line_num = 5
    /\ Len(patches) = 2
    /\ ValidEntry(Stripped(lines, 2))
    /\ MalformedEntry(Stripped(lines, 3))
    /\ Len(split(Stripped(lines, 3))) >= 2
    /\ Len(split(Stripped(lines, 3))[2]) % 2 = 1
    /\ ValidEntry(Stripped(lines, 4))

----------------------------------------------------------------------------
\* Container layout

\* the bytes of the first k patches in the container: six per patch and its
\* value
RECURSIVE SizeOfFirst(_, _)
SizeOfFirst(ps, k) == IF k = 0 THEN 0 ELSE SizeOfFirst(ps, k - 1) + 6 + Len(ps[k][2])

\* the number four bytes, and two bytes, denote most significant byte first
BigEndian32(b) == PyInt(b[1] * 256 + b[2], b[3] * 256 + b[4])

BigEndian16(b) == b[1] * 256 + b[2]

\* C11: the file written by a successful run is the five bytes "IPS32", then
\* for each patch in order four bytes of address and two bytes of length, both
\* most significant byte first, and the value bytes, then the four bytes
\* "EEOF"; its size is 9 + the sum of (6 + length) over the patches, so nothing
\* stands between the patches or after the footer.
C11_ContainerLayout ==
    result = "success" =>
        LET data == out_file[1].data
            n == Len(patches)
        IN  /\ n > 0
            /\ \A i \in 1..Len(data) : data[i] \in 0..255
            /\ Len(data) = 9 + SizeOfFirst(patches, n)
            /\ SubSeq(data, 1, 5) = <<73, 80, 83, 51, 50>>
            /\ SubSeq(data, Len(data) - 3, Len(data)) = <<69, 69, 79, 70>>
            /\ \A k \in 1..n :
                  LET at == 5 + SizeOfFirst(patches, k - 1)
                      value == patches[k][2]
                  IN  /\ BigEndian32(SubSeq(data, at + 1, at + 4)) = patches[k][1]
                      /\ BigEndian16(SubSeq(data, at + 5, at + 6)) = Len(value)
                      /\ SubSeq(data, at + 7, at + 6 + Len(value)) = value

\* the two entries 00001000 DEADBEEF and 00002000 CAFE are written as 27 bytes
C11_Witness ==
    /\ result = "success"
    /\ lines = <<"@enabled", "00001000 DEADBEEF", "00002000 CAFE">>
    /\ out_file[1].data =
          <<73, 80, 83, 51, 50,
            0, 0, 16, 0, 0, 4, 222, 173, 190, 239,
            0, 0, 32, 0, 0, 2, 202, 254,
            69, 69, 79, 70>>

----------------------------------------------------------------------------
\* Disabled sections

\* the second loop is about to read an entry line while is_enabled is false
AtDisabledEntry ==
    /\ pc = "parse"
    /\ line_num <= Len(lines)
    /\ ~stop_parsing
    /\ ~is_enabled
    /\ IsEntryLine(Stripped(lines, line_num))

\* C12: the second loop starts with is_enabled false, and an entry line read
\* while is_enabled is false adds no patch and prints nothing, whether it is
\* well formed or not; is_enabled is false before the first @enabled and after
\* every @disabled.
C12_DisabledEntriesSilent ==
    [][/\ (pc' = "parse" /\ line_num' = 1) => ~is_enabled'
       /\ AtDisabledEntry =>
             /\ patches' = patches
             /\ stdout' = stdout
             /\ is_enabled' = is_enabled
       /\ (pc = "parse" /\ line_num <= Len(lines) /\ ~stop_parsing
              /\ Stripped(lines, line_num) = AT_DISABLED) => ~is_enabled'
       /\ (pc = "parse" /\ line_num <= Len(lines) /\ ~is_enabled
              /\ Stripped(lines, line_num) # AT_ENABLED) => ~is_enabled'
      ]_vars

\* a malformed entry before the first @enabled and a well-formed entry after
\* @disabled have been read: no patch and no message
C12_Witness ==
    /\ pc = "parse"
    /\ line_num > Len(lines)
    /\ Len(lines) = 4
    /\ MalformedEntry(Stripped(lines, 1))
    /\ Stripped(lines, 2) = AT_ENABLED
    /\ Stripped(lines, 3) = AT_DISABLED
    /\ WellFormedEntry(Stripped(lines, 4))
    /\ patches = <<>>
    /\ stdout = <<>>

----------------------------------------------------------------------------
\* Two runs on the same lines

\* a + k modulo 2^32, for a and k of any sign
AddMod32(a, k) ==
    PyInt((a[1] + k[1] + ((a[2] + k[2]) \div 65536)) % 65536, (a[2] + k[2]) % 65536)

\* C13: the patches of the run with offset_shift K and the patches the same
\* lines give with offset_shift 0 are equally many, in the same order, with the
\* same values, and each address is the address of the other run plus K
\* modulo 2^32; the sections and the stop are the same in both runs.
C13_OffsetShiftsAddressesOnly ==
    ParsedAll =>
        LET base == ParseAll(lines, Len(lines), Zero)
        IN  /\ Len(patches) = Len(base.patches)
            /\ \A k \in 1..Len(patches) :
                  /\ patches[k][2] = base.patches[k][2]
                  /\ Wrap32(patches[k][1]) = AddMod32(base.patches[k][1], offset_shift)
            /\ is_enabled = base.is_enabled
            /\ stop_parsing = base.stop_parsing

\* a run with offset_shift 16 whose patch, read after a malformed entry, has
\* the address FFFFFFFF + 16
C13_Witness ==
    /\ ParsedAll
    /\ offset_shift = PyInt(0, 16)
    /\ patches = <<(<<PyInt(65536, 15), <<0>> >>)>>
    /\ \E i \in 1..Len(lines) : MalformedEntry(Stripped(lines, i))

----------------------------------------------------------------------------
\* The name of the output file

\* name is what stands in path after the last "/" and before the extension,
\* the extension being a last "." with a character other than "." before it
\* and what follows that "."
IsBaseNameWithoutExtension(name, path) ==
    \E i \in 0..Len(path) : \E j \in i..Len(path) :
        /\ name = SubSeq(path, i + 1, j)
        /\ i = 0 \/ path[i] = "/"
        /\ \A k \in (i + 1)..Len(path) : path[k] # "/"
        /\ IF j = Len(path)
           THEN \A d \in (i + 1)..j :
                    path[d] = "." => \A k \in (i + 1)..(d - 1) : path[k] = "."
           ELSE /\ path[j + 1] = "."
                /\ \A k \in (j + 2)..Len(path) : path[k] # "."
                /\ \E k \in (i + 1)..j : path[k] # "."

FirstLoopDone == pc # "scan" /\ result # "read_error"

\* C14, as claimed: the identifier is the text of a naming directive when the
\* document has one, and the base name of the file without its extension when
\* it has none; the output file is named identifier + ".ips".
C14_NameIsDirectiveText ==
    FirstLoopDone =>
        /\ IF NameLines(lines) # <<>>
           THEN \E k \in 1..Len(NameLines(lines)) :
                    nsobid = <<NameText(Stripped(lines, NameLines(lines)[k]))>>
           ELSE IsBaseNameWithoutExtension(nsobid[1], pchtxt_path)
        /\ out_file # None => out_file[1].name = nsobid[1] \o <<".", "i", "p", "s">>

\* C14, amended: the identifier is the text of the last naming directive when
\* the document has one and that text is not empty, and otherwise the base
\* name of the file without its extension; the output file is named
\* identifier + ".ips".
C14_NameIsLastTextOrBaseName ==
    FirstLoopDone =>
        /\ LET names == NameLines(lines)
               text == NameText(Stripped(lines, names[Len(names)]))
           IN  IF names # <<>> /\ text # <<>>
               THEN nsobid = <<text>>
               ELSE IsBaseNameWithoutExtension(nsobid[1], pchtxt_path)
        /\ out_file # None => out_file[1].name = nsobid[1] \o <<".", "i", "p", "s">>

\* a.b.pchtxt with a last naming directive without text is written to a.b.ips
C14_Witness ==
    /\ result = "success"
    /\ NameLines(lines) # <<>>
    /\ NameText(Stripped(lines, NameLines(lines)[Len(NameLines(lines))])) = <<>>
    /\ out_file[1].name = <<"a", ".", "b", ".", "i", "p", "s">>

----------------------------------------------------------------------------
\* Runs that fail

\* C15, as claimed: a run that ends on a fatal condition (the source is not
\* read, the folder is not made, the file is not written, there is no patch)
\* has printed a diagnostic and leaves no output file, in particular no file
\* cut short by a failed write.
C15_FatalLeavesNoFile ==
    result \in {"read_error", "no_patches", "os_error", "write_error"} =>
        /\ pc = "done"
        /\ out_file = None

\* C16, as claimed: every run reads each line of the document once in each
\* loop and ends in success or in a printed diagnostic; no address, offset or
\* value of the document ends the run in an exception that nothing handles.
C16_EveryRunEndsHandled ==
    /\ line_num <= Len(lines) + 1
    /\ result # "struct_error"

----------------------------------------------------------------------------
\* Address tokens

\* C17, as claimed: an entry whose address token is no unsigned base-16
\* number, such as one with a leading minus sign, is skipped, so the address of
\* every patch is in 0 .. 2^32 - 1.
C17_AddressesUnsigned32 ==
    \A k \in 1..Len(patches) :
        /\ 0 <= patches[k][1][1]
        /\ patches[k][1][1] < 65536

----------------------------------------------------------------------------
\* Warnings

\* the step prints exactly one line, the warning msg
WarnsOnce(msg) ==
    /\ Len(stdout') = Len(stdout) + 1
    /\ SubSeq(stdout', 1, Len(stdout)) = stdout
    /\ stdout'[Len(stdout')].msg = msg

\* C18, as claimed: each of these prints exactly one warning: an entry line of
\* an enabled section with fewer than two tokens, with an address token that
\* does not parse, with a value token that does not parse, and an offset-shift
\* directive whose literal does not parse.
C18_EachFailureWarnsOnce ==
    [][/\ AtBadOffset => WarnsOnce("Warning: Invalid offset_shift value")
       /\ (AtEnabledEntry /\ IsEntryLine(Stripped(lines, line_num))) =>
             LET parts == split(Stripped(lines, line_num))
             IN  IF Len(parts) < 2
                 THEN Len(stdout') = Len(stdout) + 1
                 ELSE IF ~IsHexNumber(parts[1])
                 THEN WarnsOnce("Warning: invalid address, skipping")
                 ELSE IF ~IsHexPairs(parts[2])
                 THEN WarnsOnce("Warning: invalid hex data, skipping")
                 ELSE stdout' = stdout
      ]_vars

----------------------------------------------------------------------------
\* Blank lines and comments

ControlDirectives == {AT_STOP, AT_ENABLED, AT_DISABLED}

\* a blank line, or a line that starts with "@", "//" or "#" and is none of
\* the three control directives
BlankOrComment(ls) ==
    \/ ls = <<>>
    \/ /\ ls \notin ControlDirectives
       /\ \/ ls[1] \in {"@", "#"}
          \/ Len(ls) >= 2 /\ ls[1] = "/" /\ ls[2] = "/"

\* the second loop is about to read a line
AtLine == pc = "parse" /\ line_num <= Len(lines)

\* C19: a blank line and a comment line leave is_enabled, stop_parsing and the
\* patches as they are and print nothing; @stop, @enabled and @disabled act as
\* directives although they start with "@"; is_enabled changes only when
\* @enabled or @disabled is read while stop_parsing is false.
C19_CommentsChangeNothing ==
    [][/\ (AtLine /\ BlankOrComment(Stripped(lines, line_num))) =>
             /\ is_enabled' = is_enabled
             /\ stop_parsing' = stop_parsing
             /\ patches' = patches
             /\ stdout' = stdout
       /\ (AtLine /\ Stripped(lines, line_num) = AT_STOP) => stop_parsing'
       /\ (AtLine /\ ~stop_parsing /\ Stripped(lines, line_num) = AT_ENABLED) =>
             is_enabled'
       /\ (AtLine /\ ~stop_parsing /\ Stripped(lines, line_num) = AT_DISABLED) =>
             ~is_enabled'
       /\ is_enabled' # is_enabled =>
             /\ AtLine
             /\ ~stop_parsing
             /\ Stripped(lines, line_num) \in {AT_ENABLED, AT_DISABLED}
      ]_vars

\* comments of the three kinds have been read in an enabled section
C19_Witness ==
    /\ pc = "parse"
    /\ line_num > Len(lines)
    /\ lines = <<"@enabled", "# c", "//c", "@flag offset_shift 7">>
    /\ is_enabled
    /\ ~stop_parsing
    /\ patches = <<>>
    /\ stdout = <<>>

----------------------------------------------------------------------------
\* The offset of the whole document

\* the offset-shift directives with a value token, in source order
ValuedOffsetLines(doc) ==
    SelectSeq([i \in 1..Len(doc) |-> i],
              LAMBDA i : IsOffsetLine(Stripped(doc, i)) /\ Len(split(Stripped(doc, i))) >= 3)

\* what the last of them gives: its number, or 0 when its literal is none
FinalOffset(doc) ==
    LET valued == ValuedOffsetLines(doc)
    IN  IF valued = <<>> THEN Zero
        ELSE LET v == int0(split(Stripped(doc, valued[Len(valued)]))[3])
             IN  IF v = ValueError THEN Zero ELSE v[1]

\* C20: offset_shift is settled before the first entry is read and is what the
\* last offset-shift directive with a value token gives, wherever the
\* directives stand; every patch, also of an entry above the directive,
\* carries this one offset.
C20_OneOffsetForAllPatches ==
    FirstLoopDone =>
        /\ offset_shift = FinalOffset(lines)
        /\ patches = RegionEntries(lines,
                                   IF pc = "parse" THEN line_num - 1 ELSE Len(lines),
                                   FinalOffset(lines))

\* the entry 1000 AB stands above the directives with 1 and with 0x10 and has
\* the address 0x1010
C20_Witness ==
    /\ ParsedAll
    /\ lines = <<"@enabled", "1000 AB", "@flag offset_shift 1", "@flag offset_shift 0x10">>
    /\ patches = <<(<<PyInt(0, 4112), <<171>> >>)>>

----------------------------------------------------------------------------
\* Values

\* the value token of the entry line the second loop is about to read: what
\* stands between the first and the second run of blanks of the trimmed line
ValueTokenAtLine ==
    LET ls == Stripped(lines, line_num)
        blanks == {i \in 1..Len(ls) : ls[i] \in {" ", "\t", "\r", "\f"}}
        from == CHOOSE i \in 1..Len(ls) :
                    /\ i - 1 \in blanks
                    /\ i \notin blanks
                    /\ \A j \in blanks : j < i => \A m \in j..(i - 1) : m \in blanks
        rest == {j \in blanks : j > from}
        to == IF rest = {} THEN Len(ls) ELSE (CHOOSE j \in rest : \A m \in rest : j <= m) - 1
    IN  SubSeq(ls, from, to)

\* C21: every patch has a value of at least one byte: a step that adds a
\* patch has read a value token that is not empty and has an even number of
\* characters, and the patch has half as many bytes; so no record of length 0
\* is written.
C21_ValuesNotEmpty ==
    [][/\ \A k \in 1..Len(patches') : Len(patches'[k][2]) >= 1
       /\ patches' # patches =>
             /\ AtLine
             /\ Len(patches') = Len(patches) + 1
             /\ Len(ValueTokenAtLine) >= 2
             /\ Len(ValueTokenAtLine) % 2 = 0
             /\ 2 * Len(patches'[Len(patches')][2]) = Len(ValueTokenAtLine)
      ]_vars

\* the entry with two blanks before AB gives a one-byte patch, the entry with
\* the value A gives none
C21_Witness ==
    /\ ParsedAll
    /\ lines = <<"@enabled", "1000  AB", "1000 A">>
    /\ patches = <<(<<PyInt(0, 4096), <<171>> >>)>>

----------------------------------------------------------------------------
\* Naming directives without text

\* nothing but blanks follows the prefix of the naming directive
EmptyNameLine(ls) ==
    /\ Len(ls) >= 8
    /\ SubSeq(ls, 1, 8) = <<"@", "n", "s", "o", "b", "i", "d", "-">>
    /\ \A i \in 9..Len(ls) : ls[i] \in {" ", "\t", "\r", "\f"}

\* the path names no file: it is empty or ends with "/"
BaseNameEmpty(path) == path = <<>> \/ path[Len(path)] = "/"

\* C22: when the last naming directive has no text the identifier is not
\* empty but the base name of the file without its extension; the identifier,
\* and with it the stem of the output file name, is empty only if the base
\* name of the file is empty.
C22_EmptyTextGivesBaseName ==
    FirstLoopDone =>
        /\ (NameLines(lines) # <<>>
              /\ EmptyNameLine(Stripped(lines, NameLines(lines)[Len(NameLines(lines))]))) =>
                 IsBaseNameWithoutExtension(nsobid[1], pchtxt_path)
        /\ nsobid # None
        /\ nsobid[1] = <<>> => BaseNameEmpty(pchtxt_path)
        /\ (out_file # None /\ out_file[1].name = <<".", "i", "p", "s">>) =>
              BaseNameEmpty(pchtxt_path)

\* dir/demo.pchtxt names itself A and then, with blanks only, nothing: the
\* file written is demo.ips
C22_Witness ==
    /\ result = "success"
    /\ pchtxt_path = PathDemo
    /\ lines = <<"@nsobid-A", " @nsobid-  ", "@enabled", "1000 AB">>
    /\ out_file[1].name = <<"d", "e", "m", "o", ".", "i", "p", "s">>

====
